---- MODULE Spec2Model ----
(***************************************************************************)
(* Audio-to-risk inference pipeline of the Parkinson detection backend.    *)
(*                                                                         *)
(*   Spec         backend/app.py: the three bundle loads at import, the    *)
(*                startup check with its downloads, and upload requests    *)
(*                running predict_from_file one at a time on the event     *)
(*                loop.                                                    *)
(*   SpecFusion   backend/app.py: the same loads and requests with every   *)
(*                file present and a fusion bundle that records either     *)
(*                order of its two columns.                                *)
(*   SpecExtract  ml_training/train_audio_features.py: extract_features,   *)
(*                one statement per step, repeated over clips.             *)
(*   SpecLegacy   backend/model.py with backend/features.py: the import    *)
(*                of MODEL and calls of predict_from_file.                 *)
(*   SpecClean    backend/app.py: clean_json, called on a value and on     *)
(*                what it returned.                                        *)
(*                                                                         *)
(* Floating point values are modelled by their class: "fin" (an ordinary   *)
(* finite number), "nan", "posinf", "neginf", and the three finite values  *)
(* a clean-up can put in their place, "zero", "maxfloat", "minfloat".      *)
(* Probabilities and scores are exact fractions [num, den].                *)
(***************************************************************************)
EXTENDS Integers, Sequences, FiniteSets, TLC

None == [kind |-> "None"]

(***************************************************************************)
(* Bounds of the model.                                                    *)
(***************************************************************************)
\* Items a list, a tuple or an array given to clean_json may have.
MaxItems == 2
\* Samples a clip may have beyond the minimum length.
MaxExtra == 1
\* Silent samples a clip may have at its head and at its tail.
MaxSilence == 1
\* The first MaxBadIdx core series may come out non-finite.
MaxBadIdx == 2

(***************************************************************************)
(* Program constants of train_audio_features.py.                           *)
(***************************************************************************)
SR == 16000
MIN_SEC == 1
N_MFCC == 20
N_MELS == 30
N_CONTRAST == 7
N_CHROMA == 12

NonFinite == {"nan", "posinf", "neginf"}
IsFinite(c) == c \notin NonFinite

(***************************************************************************)
(* Clips: the samples librosa.load returns, with the near-silent samples   *)
(* at the head and the tail that librosa.effects.trim cuts off.            *)
(***************************************************************************)
MinSamples == MIN_SEC * SR

Clips ==
    { [n |-> l, lead |-> a, trail |-> b] :
        l \in (MinSamples - 1) .. (MinSamples + MaxExtra),
        a \in 0 .. MaxSilence, b \in 0 .. MaxSilence }

\* librosa.effects.trim(y, top_db=30): y[start:end] of the non-silent interval.
Trim(y) == [n |-> y.n - y.lead - y.trail, lead |-> 0, trail |-> 0]

\* if len(y) < int(MIN_SEC * SR): raise ValueError
TooShort_OffByOne(y) == y.n < MinSamples - 1
TooShort(y) == y.n < MinSamples

(***************************************************************************)
(* stats(name, v): eight statistics of a series, or eight NaN when the     *)
(* series is None or empty.  A series is [n |-> frames, cls |-> class].    *)
(***************************************************************************)
StatKeys == <<"mean", "std", "min", "max", "p25", "p50", "p75", "qrange">>

\* numpy on a series whose values are all of class c: the differences
\* (std, qrange) of infinities are NaN, the order statistics keep the class.
StatOf(k, c) ==
    IF c \in {"posinf", "neginf"} /\ k \in {"std", "qrange"} THEN "nan" ELSE c

stats(name, v) ==
    IF v.n = 0
    THEN [i \in 1 .. Len(StatKeys) |->
            [key |-> <<name[1], name[2], StatKeys[i]>>, val |-> "nan"]]
    ELSE [i \in 1 .. Len(StatKeys) |->
            [key |-> <<name[1], name[2], StatKeys[i]>>, val |-> StatOf(StatKeys[i], v.cls)]]

(***************************************************************************)
(* extract_core_features: the series in the order the code updates feats.  *)
(***************************************************************************)
Band(fam, cnt) == [i \in 1 .. cnt |-> <<fam, i - 1>>]

MfccTriples ==
    [j \in 1 .. 3 * N_MFCC |->
        <<(CASE j % 3 = 1 -> "mfcc_b" [] j % 3 = 2 -> "d_mfcc_b" [] OTHER -> "dd_mfcc_b"),
          (j - 1) \div 3>>]

CoreSeries ==
    << <<"rms", 0>>, <<"zcr", 0>>, <<"centroid", 0>>, <<"bandwidth", 0>>,
       <<"rolloff", 0>>, <<"flatness", 0>> >>
    \o Band("contrast_b", N_CONTRAST) \o Band("chroma_b", N_CHROMA)
    \o MfccTriples \o Band("logmel_b", N_MELS)

\* f[lo] \o ... \o f[hi]
RECURSIVE Concat(_, _, _)
Concat(f, lo, hi) ==
    IF lo > hi THEN << >>
    ELSE IF lo = hi THEN f[lo]
    ELSE LET mid == (lo + hi) \div 2
         IN  Concat(f, lo, mid) \o Concat(f, mid + 1, hi)

\* feats.update(...) of fresh keys appends them: the keys of two series differ.
\* frames: frames of the clip; bad: index of the series that came out with
\* class cls (0: none).
extract_core_features(y, bad, cls) ==
    LET frames == 1 + (y.n \div 160)
        blk == [i \in 1 .. Len(CoreSeries) |->
                  stats(CoreSeries[i],
                        [n |-> frames, cls |-> IF i = bad THEN cls ELSE "fin"])]
    IN  Concat(blk, 1, Len(CoreSeries))

(***************************************************************************)
(* extract_praat_features: {} without parselmouth and on any exception,    *)
(* else f0 statistics of the voiced frames, jitter and shimmer.            *)
(* pr = [ok, voiced, jitter, shimmer] is what Praat does on the clip.      *)
(***************************************************************************)
PraatOutcomes ==
    { [ok |-> o, voiced |-> v, jitter |-> j, shimmer |-> s] :
        o \in BOOLEAN, v \in 0 .. 1, j \in {"fin", "nan"}, s \in {"fin", "nan"} }

extract_praat_features(have, pr) ==
    IF ~have THEN << >>
    ELSE IF ~pr.ok THEN << >>
    ELSE stats(<<"praat_f0", 0>>, [n |-> pr.voiced, cls |-> "fin"])
         \o << [key |-> <<"praat_jitter_local", 0, "">>, val |-> pr.jitter],
               [key |-> <<"praat_shimmer_local_db", 0, "">>, val |-> pr.shimmer] >>

\* np.array(list(feats.values()), dtype=float)
Values(feats) == [i \in 1 .. Len(feats) |-> feats[i].val]
Keys(feats) == [i \in 1 .. Len(feats) |-> feats[i].key]

\* np.nan_to_num(x): NaN to 0.0, +Inf and -Inf to the largest and the most
\* negative finite float.
NanToNumClass(c) ==
    CASE c = "nan" -> "zero"
      [] c = "posinf" -> "maxfloat"
      [] c = "neginf" -> "minfloat"
      [] OTHER -> c
nan_to_num(vec) == [i \in 1 .. Len(vec) |-> NanToNumClass(vec[i])]

(***************************************************************************)
(* extract_features(file_path) as one function of what the clip holds:     *)
(* inp = [clip, bad, cls, pr].  Raises on a clip too short after trimming. *)
(***************************************************************************)
ExtractInputs ==
    { [clip |-> c, bad |-> b, cls |-> k, pr |-> p] :
        c \in Clips, b \in 0 .. MaxBadIdx, k \in NonFinite, p \in PraatOutcomes }

\* One input per behaviour of the code: the fields nothing reads are fixed.
Canonical(have, inp) ==
    /\ inp.bad = 0 => inp.cls = "nan"
    /\ (~have \/ ~inp.pr.ok) =>
          (~inp.pr.ok /\ inp.pr.voiced = 0 /\ inp.pr.jitter = "nan" /\ inp.pr.shimmer = "nan")

extract_features(have, inp) ==
    LET y == Trim(inp.clip)
    IN  IF TooShort(y)
        THEN [raised |-> TRUE, vec |-> << >>, keys |-> << >>]
        ELSE LET feats == extract_core_features(y, inp.bad, inp.cls)
                          \o extract_praat_features(have, inp.pr)
             IN  [raised |-> FALSE, vec |-> nan_to_num(Values(feats)), keys |-> Keys(feats)]

(***************************************************************************)
(* backend/app.py: the model artifacts.                                    *)
(*                                                                         *)
(* A file under MODEL_DIR is "absent" or holds bytes that are "good" (a    *)
(* bundle with the keys the loader reads), "nokey" (a pickle without them) *)
(* or "corrupt" (joblib.load raises).                                      *)
(***************************************************************************)
AUDIO_PKL == "audio_parkinson_model_calibrated.pkl"
BRIDGE_PKL == "audio_pca22_bridge.pkl"
FUSION_PKL == "fusion_meta_model_pca22.pkl"
BundleNames == {AUDIO_PKL, BRIDGE_PKL, FUSION_PKL}

Contents == {"good", "nokey", "corrupt"}
FileStates == {"absent"} \cup Contents

\* Entries of a feature vector without and with the Praat fields.
CoreLen == Len(StatKeys) * Len(CoreSeries)
PraatLen == Len(StatKeys) + 2

\* What training put in the artifacts: the number of features of the CSV both
\* pipelines were fitted on, whether the audio bundle has a "scaler" entry and
\* whether the bridge pipeline has a step named "pca".
\* names is the "feature_names" entry of the fusion bundle: the columns the
\* meta-model was fitted on, in their order.
TrainedNames == <<"p_tab_like_from_pca22", "p_audio_full">>
Artifacts ==
    [nin : {CoreLen, CoreLen + PraatLen}, scaler : BOOLEAN, pca : BOOLEAN,
     names : {TrainedNames}]

\* The artifacts of a training run that stacked the two probabilities in
\* either order.
FusionOrders == {TrainedNames, <<"p_audio_full", "p_tab_like_from_pca22">>}
ArtifactsRetrained ==
    [nin : {CoreLen}, scaler : BOOLEAN, pca : BOOLEAN, names : FusionOrders]
AsTrained == [nin |-> CoreLen, scaler |-> TRUE, pca |-> TRUE, names |-> TrainedNames]

\* joblib.load(path) of bytes that unpickle.
joblib_load(name, content, art) ==
    IF content = "nokey" THEN [kind |-> "dict"]
    ELSE CASE name = AUDIO_PKL ->
                [kind |-> "dict",
                 model |-> [kind |-> "audio_pipeline", nin |-> art.nin,
                            steps |-> <<"scaler", "select">>],
                 scaler |-> IF art.scaler THEN [kind |-> "scaler", nin |-> art.nin]
                            ELSE None]
           [] name = BRIDGE_PKL ->
                [kind |-> "dict",
                 pipeline |-> [kind |-> "bridge_pipeline", nin |-> art.nin,
                               pca |-> art.pca,
                               steps |-> IF art.pca THEN <<"scaler", "pca">>
                                         ELSE <<"scaler">>]]
           [] OTHER ->
                [kind |-> "dict",
                 meta_model |-> [kind |-> "meta_model", nin |-> 2],
                 feature_names |-> art.names]

(***************************************************************************)
(* What the remote store answers to one download attempt.                  *)
(*   sign: the GET of /object/sign/...: it raises, answers another status  *)
(*         than 200, 200 with a JSON signedURL, 200 with a body and no     *)
(*         signedURL, or 200 with nothing.                                 *)
(*   dl:   the GET of the signed URL.   bytes: what the body holds.        *)
(***************************************************************************)
Answers ==
    [sign : {"exc", "non200", "signed", "body", "empty"},
     dl : {"exc", "non200", "ok"},
     bytes : Contents]

NoPath == "NoPath"

\* if not (SUPABASE_URL and SUPABASE_KEY): cr = [url, key], each set or not.
Credentials == [url : BOOLEAN, key : BOOLEAN]
HasCreds_UrlOnly(cr) == cr.url
HasCreds(cr) == cr.url /\ cr.key

\* try_download_model_from_supabase(filename): the path or None, the files
\* afterwards and the requests issued.
try_download_model_from_supabase(filename, fs, cr, ans) ==
    IF ~HasCreds(cr) THEN [path |-> NoPath, files |-> fs, net |-> << >>]
    ELSE CASE ans.sign = "signed" /\ ans.dl = "ok" ->
                [path |-> filename, files |-> [fs EXCEPT ![filename] = ans.bytes],
                 net |-> <<"sign", "download">>]
           [] ans.sign = "signed" /\ ans.dl # "ok" ->
                [path |-> NoPath, files |-> fs, net |-> <<"sign", "download">>]
           [] ans.sign = "body" ->
                [path |-> filename, files |-> [fs EXCEPT ![filename] = ans.bytes],
                 net |-> <<"sign">>]
           [] OTHER ->
                [path |-> NoPath, files |-> fs, net |-> <<"sign">>]

\* What safe_load_joblib raises: joblib.load's own exception on bytes that
\* do not unpickle, re-raised as it is, and the FileNotFoundError of line 116.
DeserializationError_AsAbsence == "FileNotFoundError"
DeserializationError == "UnpicklingError"
AbsenceError == "FileNotFoundError"

\* candidate.exists(), downloaded.exists()
Exists_Never(fs, name) == FALSE
Exists(fs, name) == fs[name] # "absent"

\* safe_load_joblib(path_or_name): the object or the exception raised, the
\* files afterwards and the requests issued.
safe_load_joblib(name, fs, cr, ans, art) ==
    IF Exists(fs, name)
    THEN IF fs[name] = "corrupt"
         THEN [raised |-> TRUE, err |-> DeserializationError, obj |-> None,
               files |-> fs, net |-> << >>, tried |-> FALSE, wrote |-> FALSE]
         ELSE [raised |-> FALSE, err |-> "", obj |-> joblib_load(name, fs[name], art),
               files |-> fs, net |-> << >>, tried |-> FALSE, wrote |-> FALSE]
    ELSE LET d == try_download_model_from_supabase(name, fs, cr, ans)
         IN  IF d.path # NoPath /\ Exists(d.files, name)
             THEN IF d.files[name] = "corrupt"
                  THEN [raised |-> TRUE, err |-> DeserializationError, obj |-> None,
                        files |-> d.files, net |-> d.net, tried |-> TRUE,
                        wrote |-> d.path # NoPath]
                  ELSE [raised |-> FALSE, err |-> "",
                        obj |-> joblib_load(name, d.files[name], art),
                        files |-> d.files, net |-> d.net, tried |-> TRUE,
                        wrote |-> d.path # NoPath]
             ELSE [raised |-> TRUE, err |-> AbsenceError, obj |-> None,
                   files |-> d.files, net |-> d.net, tried |-> TRUE,
                   wrote |-> d.path # NoPath]

\* The record kept of a call of safe_load_joblib.
LoadRecord(name, fs, r) ==
    [kind |-> "load", name |-> name, raised |-> r.raised, err |-> r.err,
     before |-> fs[name], after |-> r.files[name], net |-> r.net,
     tried |-> r.tried, wrote |-> r.wrote, changed |-> {n \in DOMAIN fs : r.files[n] # fs[n]}]

(***************************************************************************)
(* backend/app.py: predict_from_file.                                      *)
(*                                                                         *)
(* A probability is a fraction num/den; an array is its number of columns, *)
(* the classes of its entries and the transforms applied to it.            *)
(***************************************************************************)
Pct(q) == [kind |-> "float", num |-> q, den |-> 100]
GE(x, pct) == x.num * 100 >= pct * x.den
GT(x, pct) == x.num * 100 > pct * x.den
LT(x, pct) == x.num * 100 < pct * x.den
InUnitInterval(x) == 0 <= x.num /\ x.num <= x.den

\* Percentages a classifier's predict_proba may return.
UpstreamProbs == {0, 50, 100}
FusionProbs == {0, 39, 40, 49, 50, 64, 65, 100}

THRESHOLD == 50
BAND_LOW == 40
BAND_HIGH == 65
N_COMPONENTS == 22

\* if audio_model is None or fusion_model is None or pca_bridge is None
ModelsMissing_BridgeUnchecked(am, fm, pb) == am = None \/ fm = None
ModelsMissing(am, fm, pb) == am = None \/ fm = None \/ pb = None

\* feats = np.nan_to_num(feats).reshape(1, -1)
AsRow(vec) ==
    [kind |-> "array", n |-> Len(vec), classes |-> {vec[i] : i \in 1 .. Len(vec)},
     ops |-> << >>]

\* The replacements of NaN/Inf by numbers made up to the row: np.nan_to_num
\* in extract_features and np.nan_to_num in predict_from_file.
ExtractCleans == <<"extract_features: np.nan_to_num", "predict_from_file: np.nan_to_num">>

\* What extract_features can do in a process with or without parselmouth:
\* raise, or return a vector (kept as the row predict_from_file makes of it).
ExtractOutcome(r) ==
    IF r.raised THEN [raised |-> TRUE, row |-> None]
    ELSE [raised |-> FALSE, row |-> AsRow(nan_to_num(r.vec))]

ExtractTable ==
    [have \in BOOLEAN |->
        { ExtractOutcome(extract_features(have, inp)) :
            inp \in {i \in ExtractInputs : Canonical(have, i)} }]

\* sklearn validates the number of columns against the fitted one.
Fits_Truncating(est, x) == x.n >= est.nin
Fits(est, x) == x.n = est.nin

Transform(est, x) == [x EXCEPT !.ops = Append(x.ops, est.kind)]

\* pipe.predict_proba(x): the transforms x has gone through when the final
\* classifier of the pipeline scores it.
PipelineOps(pipe, x) == x.ops \o pipe.steps

\* x_audio = audio_scaler.transform(feats) if audio_scaler else feats
ScaleAudio(scaler, feats) ==
    IF scaler # None
    THEN IF Fits(scaler, feats)
         THEN [raised |-> FALSE, x |-> Transform(scaler, feats)]
         ELSE [raised |-> TRUE, x |-> None]
    ELSE [raised |-> FALSE, x |-> feats]

\* pca_step = pca_bridge.named_steps.get("pca", None)
\* X_pca = pca_step.transform(feats) if pca_step else np.zeros((1, 22))
ProjectPca(bridge, feats) ==
    IF bridge.pca
    THEN IF Fits(bridge, feats)
         THEN [raised |-> FALSE,
               x |-> [kind |-> "array", n |-> N_COMPONENTS, classes |-> {"fin"},
                      ops |-> <<"pca">>]]
         ELSE [raised |-> TRUE, x |-> None]
    ELSE [raised |-> FALSE,
          x |-> [kind |-> "array", n |-> N_COMPONENTS, classes |-> {"zero"},
                 ops |-> <<"zeros">>]]

\* label = "Parkinson" if p_fusion >= 0.5 else "Healthy"
Label_AboveBand(p) == IF GT(p, BAND_HIGH) THEN "Parkinson" ELSE "Healthy"
Label(p) == IF GE(p, THRESHOLD) THEN "Parkinson" ELSE "Healthy"

\* if p_fusion < 0.4: ... elif p_fusion < 0.65: ... else: ...
Summary_Inclusive(p) ==
    IF ~GT(p, BAND_LOW) THEN "stable"
    ELSE IF ~GT(p, BAND_HIGH) THEN "mild irregularities"
    ELSE "significant variation"
Summary(p) ==
    IF LT(p, BAND_LOW) THEN "stable"
    ELSE IF LT(p, BAND_HIGH) THEN "mild irregularities"
    ELSE "significant variation"

\* return label, p_audio, p_pca22, p_fusion, X_pca.tolist()[0], ai_summary
ReturnTuple(c) ==
    [kind |-> "tuple", label |-> Label(c.p_fusion), p_audio |-> c.p_audio,
     p_pca22 |-> c.p_pca22, p_fusion |-> c.p_fusion, pca_features |-> c.X_pca,
     ai_summary |-> Summary(c.p_fusion)]

\* data = {...}; return JSONResponse(data)
ResponseBody(t) ==
    [kind |-> "json", status |-> 200, user_id |-> "uid", audio_full_proba |-> t.p_audio,
     pca22_proba |-> t.p_pca22, fusion_proba |-> t.p_fusion,
     final_label |-> t.label, ai_summary |-> t.ai_summary,
     pca_features |-> t.pca_features]

\* An exception leaving upload: the framework answers with an error.
ErrorResponse(status) == [kind |-> "error", status |-> status]

(***************************************************************************)
(* backend/model.py and backend/features.py: the single-model entry point. *)
(*                                                                         *)
(* Its 22 features are kept as [cls, val], val in hundredths: sixteen      *)
(* measured by Praat and six drawn with np.random.uniform.                 *)
(***************************************************************************)
N_FEATURES == 22
N_MEASURED == 16

\* Values the measured features may all take, in hundredths.
MeasuredVals == {0, 70, 10000}

\* Two draws of rpde, dfa, spread1, spread2, d2, ppe within their ranges
\* [0.4,0.6) [0.6,0.8) [-6,-4) [0.2,0.3) [2.0,2.6) [0.15,0.25).
Draws ==
    << <<45, 65, -550, 22, 210, 17>>, <<55, 75, -450, 26, 250, 24>> >>

Num(v) == [cls |-> "fin", val |-> v]

\* extract_parselmouth_features(path): m is the value of the measured
\* features, the first k of them are of class c, u is the random draw.
extract_parselmouth_features(m, k, c, u) ==
    [kind |-> "ndarray",
     data |-> [i \in 1 .. N_FEATURES |->
                 IF i <= k THEN [cls |-> c, val |-> 0]
                 ELSE IF i <= N_MEASURED THEN Num(m)
                 ELSE Num(Draws[u][i - N_MEASURED])]]

\* features_to_vector(features): features.reshape(1, -1) of an ndarray
features_to_vector(features) ==
    IF features.kind = "ndarray"
    THEN [raised |-> FALSE, vec |-> features.data]
    ELSE [raised |-> TRUE, vec |-> << >>]

\* if np.isnan(vec).any() or np.isinf(vec).any():
\*     vec = np.nan_to_num(vec, nan=0.0, posinf=0.0, neginf=0.0)
CleanVector(vec) ==
    IF \E i \in 1 .. Len(vec) : vec[i].cls \in NonFinite
    THEN [i \in 1 .. Len(vec) |->
            IF vec[i].cls \in NonFinite THEN [cls |-> "zero", val |-> 0] ELSE vec[i]]
    ELSE vec

RECURSIVE SumVals(_, _)
SumVals(vec, k) == IF k = 0 THEN 0 ELSE vec[k].val + SumVals(vec, k - 1)

\* score = np.mean(vec)
Mean(vec) == [kind |-> "float", num |-> SumVals(vec, Len(vec)), den |-> 100 * Len(vec)]

\* if MODEL is None: score = np.mean(vec);
\*     label = "Parkinson" if score > 0.5 else "Healthy"; return label, float(score), features
MissingModelResult(vec, features) ==
    LET score == Mean(vec)
    IN  [kind |-> "tuple", label |-> IF GT(score, THRESHOLD) THEN "Parkinson" ELSE "Healthy",
         score |-> score, features |-> features, by |-> "heuristic"]

\* label = "Parkinson" if prob >= 0.5 else "Healthy"; return label, float(prob), features
ModelResult(prob, features) ==
    [kind |-> "tuple", label |-> IF GE(prob, THRESHOLD) THEN "Parkinson" ELSE "Healthy",
     score |-> prob, features |-> features, by |-> "model"]

\* The models MODEL_PATH may hold: with or without predict_proba, fitted on
\* the 22 features or on another number of them.
LegacyModels ==
    { [kind |-> "model", proba |-> b, nin |-> n] :
        b \in BOOLEAN, n \in {N_FEATURES, N_FEATURES + 1} }

(***************************************************************************)
(* backend/app.py: clean_json(obj).                                        *)
(*                                                                         *)
(* A Python value is a record with its kind: "float" (a Python float or a  *)
(* numpy.float64, which is a subclass of float) and "float32" (a           *)
(* numpy.float32 scalar, which is not) carry the class of their value;     *)
(* "list" and "tuple" carry items; "ndarray" is one-dimensional and        *)
(* carries the classes of its entries; "dict" carries keys and vals.       *)
(***************************************************************************)
PyFloat(c) == [kind |-> "float", cls |-> c]
NpFloat32(c) == [kind |-> "float32", cls |-> c]
PyList(xs) == [kind |-> "list", items |-> xs]
PyTuple(xs) == [kind |-> "tuple", items |-> xs]
NdArray(dt, cs) == [kind |-> "ndarray", dtype |-> dt, items |-> cs]
PyDict(ks, vs) == [kind |-> "dict", keys |-> ks, vals |-> vs]

\* obj.tolist(): the entries as Python floats
tolist(a) == [i \in 1 .. Len(a.items) |-> PyFloat(a.items[i])]

\* isinstance(obj, float)
IsFloat(obj) == obj.kind = "float"

\* if math.isnan(obj) or math.isinf(obj): return 0.0; return float(obj)
CleanFloat_InfToNan(obj) ==
    IF obj.cls = "nan" THEN PyFloat("zero")
    ELSE IF obj.cls \in NonFinite THEN PyFloat("nan") ELSE PyFloat(obj.cls)
CleanFloat(obj) ==
    IF obj.cls \in NonFinite THEN PyFloat("zero") ELSE PyFloat(obj.cls)

RECURSIVE clean_json(_)
clean_json(obj) ==
    CASE obj.kind = "ndarray" ->
            LET xs == tolist(obj)
            IN  PyList([i \in 1 .. Len(xs) |-> clean_json(xs[i])])
      [] obj.kind \in {"list", "tuple"} ->
            PyList([i \in 1 .. Len(obj.items) |-> clean_json(obj.items[i])])
      [] obj.kind = "dict" ->
            PyDict(obj.keys, [i \in 1 .. Len(obj.vals) |-> clean_json(obj.vals[i])])
      [] IsFloat(obj) -> CleanFloat(obj)
      [] OTHER -> obj

\* Sequences of at most n elements of S.
SeqsUpTo(S, n) == UNION { [1 .. k -> S] : k \in 0 .. n }

\* The arguments clean_json is called with.
CleanScalars ==
    { PyFloat(c) : c \in {"fin", "zero", "nan", "posinf", "neginf"} }
    \cup { NpFloat32(c) : c \in {"fin", "nan", "posinf"} }
    \cup { [kind |-> "int", val |-> 1], [kind |-> "str", val |-> "Healthy"],
           [kind |-> "bool", val |-> TRUE], None }
CleanLeaves ==
    { PyFloat("fin"), PyFloat("nan"), PyFloat("posinf"), NpFloat32("nan"),
      [kind |-> "int", val |-> 1] }
CleanFlat ==
    { PyList(xs) : xs \in SeqsUpTo(CleanLeaves, MaxItems) }
    \cup { PyTuple(xs) : xs \in SeqsUpTo(CleanLeaves, MaxItems) }
    \cup { NdArray(dt, cs) : dt \in {"float64", "float32"},
                             cs \in SeqsUpTo({"fin", "nan", "neginf"}, MaxItems) }
CleanInner ==
    { PyFloat("fin"), PyFloat("nan"), NpFloat32("posinf"),
      PyList(<<PyFloat("fin"), PyFloat("posinf")>>), PyTuple(<<PyFloat("nan")>>),
      NdArray("float32", <<"nan", "fin">>), PyDict(<<"k">>, <<PyFloat("neginf")>>) }
CleanNested ==
    { PyDict(<<"a", "b">>, <<x, y>>) : x \in CleanInner, y \in CleanInner }
    \cup { PyList(<<x>>) : x \in CleanInner } \cup { PyTuple(<<x, x>>) : x \in CleanInner }
CleanInputs == CleanScalars \cup CleanFlat \cup CleanNested

(***************************************************************************)
(* State.                                                                  *)
(***************************************************************************)
VARIABLES
    HAVE_PRAAT,     \* train_audio_features: parselmouth imported
    creds,          \* which of SUPABASE_URL and SUPABASE_KEY are set
    artifact,       \* what training put in the artifacts
    ex,             \* the running call of extract_features
    seen,           \* key orders of the vectors extract_features has returned
    files,          \* MODEL_DIR: bundle name -> file state
    phase,          \* where the process is: import, startup, serving
    missing,        \* startup_checks: the names still to fetch
    lastLoad,       \* the last call of safe_load_joblib
    resolved,       \* bundle name -> calls of safe_load_joblib made for it
    written,        \* bundle name -> times a download was written to its file
    audio_bundle, audio_model, audio_scaler,
    pca_bridge,
    fusion_bundle, fusion_model,
    cur,            \* the upload request running on the event loop
    pending,        \* upload requests accepted and waiting for the event loop
    MODEL,          \* backend/model.py: the model loaded at import, or None
    leg,            \* backend/model.py: the running call of predict_from_file
    cj,             \* clean_json: an argument, its result, the result's result
    health          \* the last answer of GET /health, or None

envVars == <<HAVE_PRAAT, creds, artifact>>
extractVars == <<ex, seen>>
storeVars == <<files, phase, missing, lastLoad, resolved, written>>
globalVars ==
    <<audio_bundle, audio_model, audio_scaler, pca_bridge, fusion_bundle, fusion_model>>
reqVars == <<cur, pending>>
legacyVars == <<MODEL, leg>>
cleanVars == <<cj>>
healthVars == <<health>>

vars ==
    <<envVars, extractVars, storeVars, globalVars, reqVars, legacyVars, cleanVars,
      healthVars>>

\* Requests that may wait for the event loop at once.
MaxPending == 2

CjIdle == [pc |-> "idle", inp |-> None, out |-> None, again |-> None]

ExIdle ==
    [pc |-> "start", inp |-> None, y |-> None, feats |-> << >>, vec |-> << >>,
     out |-> << >>, trimmed |-> FALSE, normalized |-> FALSE]

LegIdle ==
    [pc |-> "start", inp |-> None, features |-> None, vec |-> << >>, ret |-> None,
     prev |-> None]

CurIdle ==
    [pc |-> "idle", steps |-> << >>, feats |-> None, x_audio |-> None, p_audio |-> None,
     X_pca |-> None, p_pca22 |-> None, f_input |-> << >>, p_fusion |-> None,
     ret |-> None, resp |-> None, cleans |-> << >>,
     x_bridge |-> None, clf_audio |-> << >>, clf_bridge |-> << >>]

(***************************************************************************)
(* extract_features(file_path), statement by statement.                    *)
(***************************************************************************)
\* y, sr = librosa.load(file_path, sr=SR, mono=True)
ExLoad ==
    /\ ex.pc = "start"
    /\ \E inp \in ExtractInputs :
          /\ Canonical(HAVE_PRAAT, inp)
          /\ ex' = [ex EXCEPT !.pc = "loaded", !.inp = inp, !.y = inp.clip]
    /\ UNCHANGED <<seen, envVars, cleanVars, healthVars, storeVars, globalVars, reqVars, legacyVars>>

\* librosa.load raises on an undecodable file
ExLoadFail ==
    /\ ex.pc = "start"
    /\ ex' = [ex EXCEPT !.pc = "raised"]
    /\ UNCHANGED <<seen, envVars, cleanVars, healthVars, storeVars, globalVars, reqVars, legacyVars>>

\* y, _ = librosa.effects.trim(y, top_db=30)
ExTrim ==
    /\ ex.pc = "loaded"
    /\ ex' = [ex EXCEPT !.pc = "trimmed", !.y = Trim(ex.y), !.trimmed = TRUE]
    /\ UNCHANGED <<seen, envVars, cleanVars, healthVars, storeVars, globalVars, reqVars, legacyVars>>

\* if len(y) < int(MIN_SEC * SR): raise ValueError(...)
ExCheck ==
    /\ ex.pc = "trimmed"
    /\ ex' = [ex EXCEPT !.pc = IF TooShort(ex.y) THEN "raised" ELSE "checked"]
    /\ UNCHANGED <<seen, envVars, cleanVars, healthVars, storeVars, globalVars, reqVars, legacyVars>>

\* y = librosa.util.normalize(y)
ExNormalize ==
    /\ ex.pc = "checked"
    /\ ex' = [ex EXCEPT !.pc = "normalized", !.normalized = TRUE]
    /\ UNCHANGED <<seen, envVars, cleanVars, healthVars, storeVars, globalVars, reqVars, legacyVars>>

\* feats = {}; feats.update(extract_core_features(y, sr))
ExCore ==
    /\ ex.pc = "normalized"
    /\ ex' = [ex EXCEPT !.pc = "core",
                        !.feats = extract_core_features(ex.y, ex.inp.bad, ex.inp.cls)]
    /\ UNCHANGED <<seen, envVars, cleanVars, healthVars, storeVars, globalVars, reqVars, legacyVars>>

\* feats.update(extract_praat_features(y, sr))
ExPraat ==
    /\ ex.pc = "core"
    /\ ex' = [ex EXCEPT !.pc = "praat",
                        !.feats = ex.feats \o extract_praat_features(HAVE_PRAAT, ex.inp.pr)]
    /\ UNCHANGED <<seen, envVars, cleanVars, healthVars, storeVars, globalVars, reqVars, legacyVars>>

\* vec = np.array(list(feats.values()), dtype=float)
ExVec ==
    /\ ex.pc = "praat"
    /\ ex' = [ex EXCEPT !.pc = "vec", !.vec = Values(ex.feats)]
    /\ UNCHANGED <<seen, envVars, cleanVars, healthVars, storeVars, globalVars, reqVars, legacyVars>>

\* vec = np.nan_to_num(vec); return vec
ExClean ==
    /\ ex.pc = "vec"
    /\ ex' = [ex EXCEPT !.pc = "returned", !.out = nan_to_num(ex.vec)]
    /\ seen' = seen \cup {Keys(ex.feats)}
    /\ UNCHANGED <<envVars, cleanVars, healthVars, storeVars, globalVars, reqVars, legacyVars>>

\* the next call
ExNext ==
    /\ ex.pc \in {"returned", "raised"}
    /\ ex' = ExIdle
    /\ UNCHANGED <<seen, envVars, cleanVars, healthVars, storeVars, globalVars, reqVars, legacyVars>>

(***************************************************************************)
(* backend/app.py at import: the three loads, each in its own try/except.  *)
(***************************************************************************)
\* audio_bundle = safe_load_joblib(...); audio_model = audio_bundle["model"];
\* audio_scaler = audio_bundle.get("scaler", None); except: all three None
AudioGlobals_KeepsBundle(r) ==
    IF ~r.raised /\ "model" \in DOMAIN r.obj
    THEN [bundle |-> r.obj, model |-> r.obj.model,
          scaler |-> IF "scaler" \in DOMAIN r.obj THEN r.obj.scaler ELSE None]
    ELSE [bundle |-> IF r.raised THEN None ELSE r.obj, model |-> None, scaler |-> None]
AudioGlobals(r) ==
    IF ~r.raised /\ "model" \in DOMAIN r.obj
    THEN [bundle |-> r.obj, model |-> r.obj.model,
          scaler |-> IF "scaler" \in DOMAIN r.obj THEN r.obj.scaler ELSE None]
    ELSE [bundle |-> None, model |-> None, scaler |-> None]

\* pca_bridge = safe_load_joblib(...)["pipeline"]; except: None
BridgeGlobal(r) ==
    IF ~r.raised /\ "pipeline" \in DOMAIN r.obj THEN r.obj.pipeline ELSE None

\* fusion_bundle = safe_load_joblib(...); fusion_model = fusion_bundle["meta_model"]
FusionGlobals(r) ==
    IF ~r.raised /\ "meta_model" \in DOMAIN r.obj
    THEN [bundle |-> r.obj, model |-> r.obj.meta_model]
    ELSE [bundle |-> None, model |-> None]

LoadAudio ==
    /\ phase = "import_audio"
    /\ \E ans \in Answers :
          LET r == safe_load_joblib(AUDIO_PKL, files, creds, ans, artifact)
              g == AudioGlobals(r)
          IN  /\ audio_bundle' = g.bundle
              /\ audio_model' = g.model
              /\ audio_scaler' = g.scaler
              /\ files' = r.files
              /\ lastLoad' = LoadRecord(AUDIO_PKL, files, r)
              /\ resolved' = [resolved EXCEPT ![AUDIO_PKL] = @ + 1]
              /\ written' = [written EXCEPT ![AUDIO_PKL] = @ + (IF r.wrote THEN 1 ELSE 0)]
    /\ phase' = "import_bridge"
    /\ UNCHANGED <<envVars, cleanVars, healthVars, extractVars, reqVars, legacyVars, missing,
                   pca_bridge, fusion_bundle, fusion_model>>

LoadBridge ==
    /\ phase = "import_bridge"
    /\ \E ans \in Answers :
          LET r == safe_load_joblib(BRIDGE_PKL, files, creds, ans, artifact)
          IN  /\ pca_bridge' = BridgeGlobal(r)
              /\ files' = r.files
              /\ lastLoad' = LoadRecord(BRIDGE_PKL, files, r)
              /\ resolved' = [resolved EXCEPT ![BRIDGE_PKL] = @ + 1]
              /\ written' = [written EXCEPT ![BRIDGE_PKL] = @ + (IF r.wrote THEN 1 ELSE 0)]
    /\ phase' = "import_fusion"
    /\ UNCHANGED <<envVars, cleanVars, healthVars, extractVars, reqVars, legacyVars, missing,
                   audio_bundle, audio_model, audio_scaler, fusion_bundle, fusion_model>>

LoadFusion ==
    /\ phase = "import_fusion"
    /\ \E ans \in Answers :
          LET r == safe_load_joblib(FUSION_PKL, files, creds, ans, artifact)
              g == FusionGlobals(r)
          IN  /\ fusion_bundle' = g.bundle
              /\ fusion_model' = g.model
              /\ files' = r.files
              /\ lastLoad' = LoadRecord(FUSION_PKL, files, r)
              /\ resolved' = [resolved EXCEPT ![FUSION_PKL] = @ + 1]
              /\ written' = [written EXCEPT ![FUSION_PKL] = @ + (IF r.wrote THEN 1 ELSE 0)]
    /\ phase' = "startup"
    /\ UNCHANGED <<envVars, cleanVars, healthVars, extractVars, reqVars, legacyVars, missing,
                   audio_bundle, audio_model, audio_scaler, pca_bridge>>

(***************************************************************************)
(* startup_checks: fetch what is missing; nothing it loads is assigned.    *)
(***************************************************************************)
MissingNames(am, pb, fm) ==
    (IF am = None THEN <<AUDIO_PKL>> ELSE << >>)
    \o (IF pb = None THEN <<BRIDGE_PKL>> ELSE << >>)
    \o (IF fm = None THEN <<FUSION_PKL>> ELSE << >>)

\* missing = [...]; if missing and SUPABASE_URL and SUPABASE_KEY: ... elif missing: warn
StartupBegin ==
    /\ phase = "startup"
    /\ LET m == MissingNames(audio_model, pca_bridge, fusion_model)
       IN  IF m # << >> /\ HasCreds(creds)
           THEN missing' = m /\ phase' = "startup_loop"
           ELSE missing' = << >> /\ phase' = "serving"
    /\ UNCHANGED <<envVars, cleanVars, healthVars, extractVars, reqVars, legacyVars, globalVars, files, lastLoad, resolved, written>>

\* for name in missing: try: safe_load_joblib(name) except: warn
StartupFetch_Assigns ==
    /\ phase = "startup_loop"
    /\ missing # << >>
    /\ \E ans \in Answers :
          LET r == safe_load_joblib(Head(missing), files, creds, ans, artifact)
          IN  /\ files' = r.files
              /\ lastLoad' = LoadRecord(Head(missing), files, r)
              /\ resolved' = [resolved EXCEPT ![Head(missing)] = @ + 1]
              /\ written' = [written EXCEPT ![Head(missing)] = @ + (IF r.wrote THEN 1 ELSE 0)]
              /\ pca_bridge' = IF Head(missing) = BRIDGE_PKL THEN BridgeGlobal(r)
                               ELSE pca_bridge
    /\ missing' = Tail(missing)
    /\ UNCHANGED <<envVars, cleanVars, healthVars, extractVars, reqVars, legacyVars, phase,
                   audio_bundle, audio_model, audio_scaler, fusion_bundle, fusion_model>>
StartupFetch ==
    /\ phase = "startup_loop"
    /\ missing # << >>
    /\ \E ans \in Answers :
          LET r == safe_load_joblib(Head(missing), files, creds, ans, artifact)
          IN  /\ files' = r.files
              /\ lastLoad' = LoadRecord(Head(missing), files, r)
              /\ resolved' = [resolved EXCEPT ![Head(missing)] = @ + 1]
              /\ written' = [written EXCEPT ![Head(missing)] = @ + (IF r.wrote THEN 1 ELSE 0)]
    /\ missing' = Tail(missing)
    /\ UNCHANGED <<envVars, cleanVars, healthVars, extractVars, reqVars, legacyVars, globalVars, phase>>

StartupDone ==
    /\ phase = "startup_loop"
    /\ missing = << >>
    /\ phase' = "serving"
    /\ UNCHANGED <<envVars, cleanVars, healthVars, extractVars, reqVars, legacyVars, globalVars, files, missing, lastLoad, resolved, written>>

(***************************************************************************)
(* POST /upload: upload is a coroutine and calls predict_from_file         *)
(* directly, so from the end of `await file.read()` to the response one    *)
(* request holds the event loop; the others wait.                          *)
(***************************************************************************)
Fail_DefaultResult(c, status) ==
    [c EXCEPT !.pc = "returned",
              !.resp = ResponseBody([kind |-> "tuple", label |-> "Healthy",
                                     p_audio |-> Pct(0), p_pca22 |-> Pct(0),
                                     p_fusion |-> Pct(0), pca_features |-> None,
                                     ai_summary |-> "stable"])]
Fail(c, status) == [c EXCEPT !.pc = "failed", !.resp = ErrorResponse(status)]
Step(c, pc, name) == [c EXCEPT !.pc = pc, !.steps = Append(c.steps, name)]

\* a client posts a file
Arrive ==
    /\ phase = "serving"
    /\ pending < MaxPending
    /\ pending' = pending + 1
    /\ UNCHANGED <<envVars, cleanVars, healthVars, extractVars, storeVars, globalVars, legacyVars, cur>>

\* the client goes away while upload awaits file.read()
Cancel ==
    /\ phase = "serving"
    /\ pending > 0
    /\ pending' = pending - 1
    /\ UNCHANGED <<envVars, cleanVars, healthVars, extractVars, storeVars, globalVars,
                   legacyVars, cur>>

\* tmp.write(await file.read()); tmp.flush(); tmp.close()
UploadRead ==
    /\ phase = "serving"
    /\ cur.pc = "idle"
    /\ pending > 0
    /\ pending' = pending - 1
    /\ cur' = [CurIdle EXCEPT !.pc = "received"]
    /\ UNCHANGED <<envVars, cleanVars, healthVars, extractVars, storeVars, globalVars, legacyVars>>

\* if audio_model is None or ...: raise HTTPException(status_code=500, ...)
ModelCheck ==
    /\ cur.pc = "received"
    /\ cur' = IF ModelsMissing(audio_model, fusion_model, pca_bridge)
              THEN Fail(cur, 500)
              ELSE Step(cur, "extract", "check")
    /\ UNCHANGED <<envVars, cleanVars, healthVars, extractVars, storeVars, globalVars, legacyVars, pending>>

\* feats = extract_features(file_path); feats = np.nan_to_num(feats).reshape(1, -1)
Extract ==
    /\ cur.pc = "extract"
    /\ \E o \in ExtractTable[HAVE_PRAAT] :
          cur' = IF o.raised THEN Fail(cur, 500)
                 ELSE [Step(cur, "audio", "extract") EXCEPT
                          !.feats = o.row, !.cleans = ExtractCleans]
    /\ UNCHANGED <<envVars, cleanVars, healthVars, extractVars, storeVars, globalVars, legacyVars, pending>>

\* librosa.load raises on an undecodable upload
ExtractLoadFail ==
    /\ cur.pc = "extract"
    /\ cur' = Fail(cur, 500)
    /\ UNCHANGED <<envVars, cleanVars, healthVars, extractVars, storeVars, globalVars, legacyVars, pending>>

\* x_audio = ...; p_audio = float(audio_model.predict_proba(x_audio)[0, 1])
ScoreAudio ==
    /\ cur.pc = "audio"
    /\ LET s == ScaleAudio(audio_scaler, cur.feats)
       IN  IF s.raised \/ ~Fits(audio_model, s.x)
           THEN cur' = Fail(cur, 500)
           ELSE \E p \in UpstreamProbs :
                   cur' = [Step(cur, "bridge", "audio") EXCEPT
                              !.x_audio = s.x, !.p_audio = Pct(p),
                              !.clf_audio = PipelineOps(audio_model, s.x)]
    /\ UNCHANGED <<envVars, cleanVars, healthVars, extractVars, storeVars, globalVars, legacyVars, pending>>

\* X_pca = ...; p_pca22 = float(pca_bridge.predict_proba(feats)[0, 1])
ScoreBridge_OnScaled ==
    /\ cur.pc = "bridge"
    /\ LET x == ProjectPca(pca_bridge, cur.x_audio)
       IN  IF x.raised \/ ~Fits(pca_bridge, cur.x_audio)
           THEN cur' = Fail(cur, 500)
           ELSE \E p \in UpstreamProbs :
                   cur' = [Step(cur, "fusion", "bridge") EXCEPT
                              !.X_pca = x.x, !.p_pca22 = Pct(p),
                              !.x_bridge = cur.x_audio,
                              !.clf_bridge = PipelineOps(pca_bridge, cur.x_audio)]
    /\ UNCHANGED <<envVars, cleanVars, healthVars, extractVars, storeVars, globalVars,
                   legacyVars, pending>>
ScoreBridge ==
    /\ cur.pc = "bridge"
    /\ LET x == ProjectPca(pca_bridge, cur.feats)
       IN  IF x.raised \/ ~Fits(pca_bridge, cur.feats)
           THEN cur' = Fail(cur, 500)
           ELSE \E p \in UpstreamProbs :
                   cur' = [Step(cur, "fusion", "bridge") EXCEPT
                              !.X_pca = x.x, !.p_pca22 = Pct(p),
                              !.x_bridge = cur.feats,
                              !.clf_bridge = PipelineOps(pca_bridge, cur.feats)]
    /\ UNCHANGED <<envVars, cleanVars, healthVars, extractVars, storeVars, globalVars, legacyVars, pending>>

\* f_input = np.array([[p_pca22, p_audio]])
\* p_fusion = float(fusion_model.predict_proba(f_input)[0, 1])
Fuse ==
    /\ cur.pc = "fusion"
    /\ \E p \in FusionProbs :
          cur' = [Step(cur, "finish", "fusion") EXCEPT
                     !.f_input = <<cur.p_pca22, cur.p_audio>>, !.p_fusion = Pct(p)]
    /\ UNCHANGED <<envVars, cleanVars, healthVars, extractVars, storeVars, globalVars, legacyVars, pending>>

\* a scorer raises (an estimator rejects its input)
ScorerRaises ==
    /\ cur.pc \in {"audio", "bridge", "fusion"}
    /\ cur' = Fail(cur, 500)
    /\ UNCHANGED <<envVars, cleanVars, healthVars, extractVars, storeVars, globalVars, legacyVars, pending>>

\* label = ...; ai_summary = ...; return label, p_audio, ...
Finish ==
    /\ cur.pc = "finish"
    /\ cur' = [cur EXCEPT !.pc = "predicted", !.ret = ReturnTuple(cur)]
    /\ UNCHANGED <<envVars, cleanVars, healthVars, extractVars, storeVars, globalVars, legacyVars, pending>>

\* data = {...}; return JSONResponse(data)
Respond ==
    /\ cur.pc = "predicted"
    /\ cur' = [cur EXCEPT !.pc = "returned", !.resp = ResponseBody(cur.ret)]
    /\ UNCHANGED <<envVars, cleanVars, healthVars, extractVars, storeVars, globalVars, legacyVars, pending>>

\* the response is sent; the event loop takes the next request
Done_DropsScaler ==
    /\ cur.pc \in {"returned", "failed"}
    /\ cur' = CurIdle
    /\ audio_scaler' = None
    /\ UNCHANGED <<envVars, cleanVars, healthVars, extractVars, storeVars, legacyVars,
                   pending, audio_bundle, audio_model, pca_bridge, fusion_bundle,
                   fusion_model>>
Done ==
    /\ cur.pc \in {"returned", "failed"}
    /\ cur' = CurIdle
    /\ UNCHANGED <<envVars, cleanVars, healthVars, extractVars, storeVars, globalVars, legacyVars, pending>>

(***************************************************************************)
(* GET /health.  The event loop dispatches it when it is free, that is     *)
(* when no upload is between the end of its read and its response.         *)
(***************************************************************************)
HealthBody(am, pb, fm) ==
    [kind |-> "json", status |-> "ok",
     models |-> [audio_model |-> am # None, pca_bridge |-> pb # None,
                 fusion_model |-> fm # None]]

Health ==
    /\ phase = "serving"
    /\ cur.pc = "idle"
    /\ health' = HealthBody(audio_model, pca_bridge, fusion_model)
    /\ UNCHANGED <<envVars, cleanVars, extractVars, storeVars, globalVars, legacyVars,
                   reqVars>>

(***************************************************************************)
(* backend/model.py: predict_from_file(path).  Every exception inside is   *)
(* re-raised as RuntimeError("Audio processing failed: ...").              *)
(***************************************************************************)
\* sound = AudioSegment.from_file(path); sound.export(wav_path, format="wav")
LegConvert ==
    /\ leg.pc = "start"
    /\ \E ok \in BOOLEAN : leg' = [leg EXCEPT !.pc = IF ok THEN "converted" ELSE "raised"]
    /\ UNCHANGED <<envVars, cleanVars, healthVars, extractVars, storeVars, globalVars, reqVars, MODEL>>

\* features = extract_parselmouth_features(path)
LegExtract ==
    /\ leg.pc = "converted"
    /\ \/ \E m \in MeasuredVals, k \in 0 .. MaxBadIdx, c \in NonFinite, u \in 1 .. Len(Draws) :
             /\ k = 0 => c = "nan"
             /\ leg' = [leg EXCEPT !.pc = "extracted",
                                   !.inp = [kind |-> "wav", m |-> m, k |-> k, c |-> c],
                                   !.features = extract_parselmouth_features(m, k, c, u)]
       \/ leg' = [leg EXCEPT !.pc = "raised"]
    /\ UNCHANGED <<envVars, cleanVars, healthVars, extractVars, storeVars, globalVars, reqVars, MODEL>>

\* vec = features_to_vector(features); if np.isnan(vec).any() ...: vec = np.nan_to_num(...)
LegVector ==
    /\ leg.pc = "extracted"
    /\ LET v == features_to_vector(leg.features)
       IN  leg' = IF v.raised THEN [leg EXCEPT !.pc = "raised"]
                  ELSE [leg EXCEPT !.pc = "vector", !.vec = CleanVector(v.vec)]
    /\ UNCHANGED <<envVars, cleanVars, healthVars, extractVars, storeVars, globalVars, reqVars, MODEL>>

\* if MODEL is None: ... return label, float(score), features
LegMissingModel ==
    /\ leg.pc = "vector"
    /\ MODEL = None
    /\ leg' = [leg EXCEPT !.pc = "returned", !.ret = MissingModelResult(leg.vec, leg.features)]
    /\ UNCHANGED <<envVars, cleanVars, healthVars, extractVars, storeVars, globalVars, reqVars, MODEL>>

\* prob = MODEL.predict_proba(vec)[0][1] if hasattr(MODEL, "predict_proba")
\*        else float(MODEL.predict(vec)[0]); label = ...; return ...
LegPredict ==
    /\ leg.pc = "vector"
    /\ MODEL # None
    /\ IF Len(leg.vec) # MODEL.nin
       THEN leg' = [leg EXCEPT !.pc = "raised"]
       ELSE \E p \in (IF MODEL.proba THEN FusionProbs ELSE {0, 100}) :
               leg' = [leg EXCEPT !.pc = "returned", !.ret = ModelResult(Pct(p), leg.features)]
    /\ UNCHANGED <<envVars, cleanVars, healthVars, extractVars, storeVars, globalVars, reqVars, MODEL>>

\* the next call
LegNext ==
    /\ leg.pc \in {"returned", "raised"}
    /\ leg' = [LegIdle EXCEPT
                  !.prev = IF leg.features # None
                           THEN [kind |-> "call", inp |-> leg.inp, features |-> leg.features]
                           ELSE leg.prev]
    /\ UNCHANGED <<envVars, cleanVars, healthVars, extractVars, storeVars, globalVars, reqVars, MODEL>>

(***************************************************************************)
(* clean_json called on a value, and on what it returned.                  *)
(***************************************************************************)
CjCall ==
    /\ cj.pc = "idle"
    /\ \E x \in CleanInputs :
          cj' = [pc |-> "cleaned", inp |-> x, out |-> clean_json(x), again |-> None]
    /\ UNCHANGED <<envVars, extractVars, storeVars, globalVars, reqVars, legacyVars,
                   healthVars>>

CjAgain ==
    /\ cj.pc = "cleaned"
    /\ cj' = [cj EXCEPT !.pc = "recleaned", !.again = clean_json(cj.out)]
    /\ UNCHANGED <<envVars, extractVars, storeVars, globalVars, reqVars, legacyVars,
                   healthVars>>

CjNext ==
    /\ cj.pc \in {"cleaned", "recleaned"}
    /\ cj' = CjIdle
    /\ UNCHANGED <<envVars, extractVars, storeVars, globalVars, reqVars, legacyVars,
                   healthVars>>

(***************************************************************************)
(* Specifications.                                                         *)
(***************************************************************************)
NoLoad == [kind |-> "None"]

InitGlobals ==
    /\ audio_bundle = None /\ audio_model = None /\ audio_scaler = None
    /\ pca_bridge = None
    /\ fusion_bundle = None /\ fusion_model = None

\* backend/app.py, from its import on.
Init ==
    /\ HAVE_PRAAT \in BOOLEAN
    /\ creds \in Credentials
    /\ artifact \in Artifacts
    /\ ex = ExIdle /\ seen = {}
    /\ files \in [BundleNames -> FileStates]
    /\ phase = "import_audio"
    /\ missing = << >>
    /\ lastLoad = NoLoad
    /\ resolved = [n \in BundleNames |-> 0]
    /\ written = [n \in BundleNames |-> 0]
    /\ InitGlobals
    /\ cur = CurIdle /\ pending = 0
    /\ MODEL = None /\ leg = LegIdle
    /\ cj = CjIdle
    /\ health = None

Next ==
    \/ LoadAudio \/ LoadBridge \/ LoadFusion
    \/ StartupBegin \/ StartupFetch \/ StartupDone
    \/ Arrive \/ Cancel \/ UploadRead \/ ModelCheck \/ Extract \/ ExtractLoadFail
    \/ ScoreAudio \/ ScoreBridge \/ Fuse \/ ScorerRaises
    \/ Finish \/ Respond \/ Done \/ Health

Spec == Init /\ [][Next]_vars

\* backend/app.py with every bundle in place, as trained or as retrained
\* with the fusion columns in the other order.
InitFusion ==
    /\ HAVE_PRAAT \in BOOLEAN
    /\ creds = [url |-> FALSE, key |-> FALSE]
    /\ artifact \in ArtifactsRetrained
    /\ ex = ExIdle /\ seen = {}
    /\ files = [n \in BundleNames |-> "good"]
    /\ phase = "import_audio"
    /\ missing = << >>
    /\ lastLoad = NoLoad
    /\ resolved = [n \in BundleNames |-> 0]
    /\ written = [n \in BundleNames |-> 0]
    /\ InitGlobals
    /\ cur = CurIdle /\ pending = 0
    /\ MODEL = None /\ leg = LegIdle
    /\ cj = CjIdle
    /\ health = None

NextFusion ==
    \/ LoadAudio \/ LoadBridge \/ LoadFusion \/ StartupBegin
    \/ Arrive \/ Cancel \/ UploadRead \/ ModelCheck \/ Extract \/ ExtractLoadFail
    \/ ScoreAudio \/ ScoreBridge \/ Fuse \/ ScorerRaises
    \/ Finish \/ Respond \/ Done \/ Health

SpecFusion == InitFusion /\ [][NextFusion]_vars

\* extract_features alone, called on clip after clip.
InitExtract ==
    /\ HAVE_PRAAT \in BOOLEAN
    /\ creds = [url |-> FALSE, key |-> FALSE]
    /\ artifact = AsTrained
    /\ ex = ExIdle /\ seen = {}
    /\ files = [n \in BundleNames |-> "absent"]
    /\ phase = "off"
    /\ missing = << >>
    /\ lastLoad = NoLoad
    /\ resolved = [n \in BundleNames |-> 0]
    /\ written = [n \in BundleNames |-> 0]
    /\ InitGlobals
    /\ cur = CurIdle /\ pending = 0
    /\ MODEL = None /\ leg = LegIdle
    /\ cj = CjIdle
    /\ health = None

NextExtract ==
    \/ ExLoad \/ ExLoadFail \/ ExTrim \/ ExCheck \/ ExNormalize
    \/ ExCore \/ ExPraat \/ ExVec \/ ExClean \/ ExNext

SpecExtract == InitExtract /\ [][NextExtract]_vars

\* backend/model.py, from its import on.
InitLegacy ==
    /\ HAVE_PRAAT = FALSE
    /\ creds = [url |-> FALSE, key |-> FALSE]
    /\ artifact = AsTrained
    /\ ex = ExIdle /\ seen = {}
    /\ files = [n \in BundleNames |-> "absent"]
    /\ phase = "off"
    /\ missing = << >>
    /\ lastLoad = NoLoad
    /\ resolved = [n \in BundleNames |-> 0]
    /\ written = [n \in BundleNames |-> 0]
    /\ InitGlobals
    /\ cur = CurIdle /\ pending = 0
    /\ MODEL \in {None} \cup LegacyModels
    /\ leg = LegIdle
    /\ cj = CjIdle
    /\ health = None

NextLegacy ==
    \/ LegConvert \/ LegExtract \/ LegVector \/ LegMissingModel \/ LegPredict \/ LegNext

SpecLegacy == InitLegacy /\ [][NextLegacy]_vars

\* clean_json alone.
InitClean ==
    /\ HAVE_PRAAT = FALSE
    /\ creds = [url |-> FALSE, key |-> FALSE]
    /\ artifact = AsTrained
    /\ ex = ExIdle /\ seen = {}
    /\ files = [n \in BundleNames |-> "absent"]
    /\ phase = "off"
    /\ missing = << >>
    /\ lastLoad = NoLoad
    /\ resolved = [n \in BundleNames |-> 0]
    /\ written = [n \in BundleNames |-> 0]
    /\ InitGlobals
    /\ cur = CurIdle /\ pending = 0
    /\ MODEL = None /\ leg = LegIdle
    /\ cj = CjIdle
    /\ health = None

NextClean == CjCall \/ CjAgain \/ CjNext

SpecClean == InitClean /\ [][NextClean]_vars

(***************************************************************************)
(* Properties.                                                             *)
(***************************************************************************)
AllSteps == <<"check", "extract", "audio", "bridge", "fusion">>
IsPrefix(a, b) == Len(a) <= Len(b) /\ a = SubSeq(b, 1, Len(a))
SomeModelNone == audio_model = None \/ pca_bridge = None \/ fusion_model = None

\* C1: while one of audio_model, pca_bridge, fusion_model is None, a request
\* to predict_from_file gets no further than the model check: it runs no
\* extraction or scoring step, holds no vector, probability, label or summary,
\* and the only answer it gets is the error with status 500.
C1_MissingModelFailsFirst ==
    SomeModelNone =>
        /\ cur.pc \in {"idle", "received", "failed"}
        /\ cur.steps = << >>
        /\ cur.feats = None /\ cur.p_audio = None /\ cur.p_pca22 = None
        /\ cur.p_fusion = None /\ cur.ret = None
        /\ cur.resp \in {None, ErrorResponse(500)}

\* C1 witness: a request failed at the model check with only the bridge missing.
C1_Witness ==
    /\ cur.pc = "failed" /\ cur.resp = ErrorResponse(500) /\ cur.steps = << >>
    /\ pca_bridge = None /\ audio_model # None /\ fusion_model # None

\* C2: in model.py's predict_from_file, a call made while MODEL is None ends
\* in an error: it returns no (label, score).
C2_MissingModelEndsInError ==
    (MODEL = None /\ leg.pc \in {"returned", "raised"}) =>
        (leg.pc = "raised" /\ leg.ret = None)

\* C2 witness: with MODEL None a call returned a label and the mean of the
\* feature vector as its score.
C2_Witness ==
    /\ MODEL = None /\ leg.pc = "returned"
    /\ leg.ret # None /\ leg.ret.by = "heuristic" /\ leg.ret.score = Mean(leg.vec)

\* C3: the body with label, probabilities, pca_features and ai_summary is built
\* only after the model check, the extraction, both scorings and the fusion
\* have all succeeded, and it carries what they computed; a request that
\* failed stopped right after the steps that succeeded and is answered with an
\* error that carries none of the results.
C3_NoPartialResult ==
    /\ cur.resp.kind = "json" =>
          /\ cur.steps = AllSteps
          /\ cur.feats # None /\ cur.X_pca # None /\ cur.ret # None
          /\ cur.p_audio # None /\ cur.p_pca22 # None /\ cur.p_fusion # None
          /\ cur.resp = ResponseBody(cur.ret)
          /\ cur.ret.p_audio = cur.p_audio /\ cur.ret.p_pca22 = cur.p_pca22
          /\ cur.ret.p_fusion = cur.p_fusion /\ cur.ret.pca_features = cur.X_pca
    /\ cur.pc = "failed" =>
          /\ cur.resp = ErrorResponse(500)
          /\ cur.ret = None
          /\ IsPrefix(cur.steps, AllSteps) /\ cur.steps # AllSteps
    /\ cur.pc \in {"predicted", "returned"} => cur.steps = AllSteps
    /\ cur.resp # None => cur.pc \in {"failed", "returned"}

\* C3 witness: a request that failed after the extraction and the audio
\* scoring had succeeded, answered with the error only.
C3_Witness ==
    /\ cur.pc = "failed" /\ cur.steps = <<"check", "extract", "audio">>
    /\ cur.p_audio # None /\ cur.resp = ErrorResponse(500)

\* C4: extract_features is past its length check only with a clip that has
\* been trimmed and has at least MIN_SEC * SR samples left; a clip shorter
\* than that after trimming is never normalized, yields no feature and no
\* vector, and the call raises.
C4_ShortClipRaises ==
    /\ ex.pc \in {"checked", "normalized", "core", "praat", "vec", "returned"} =>
          (ex.trimmed /\ ex.y.n >= 16000)
    /\ (ex.trimmed /\ ex.y.n < 16000) =>
          /\ ex.pc \in {"trimmed", "raised"}
          /\ ~ex.normalized /\ ex.feats = << >> /\ ex.vec = << >> /\ ex.out = << >>
    /\ ex.pc = "raised" => ex.out = << >>
    /\ ex.normalized => ex.trimmed

\* C4 witness: a clip of at least one second that trimming left shorter, raised.
C4_Witness ==
    /\ ex.pc = "raised" /\ ex.trimmed
    /\ ex.inp.clip.n >= 16000 /\ ex.y.n < 16000

\* C5: in the vector extract_features returns, every entry that was NaN, +Inf
\* or -Inf before the clean-up is zero, and no entry is NaN or infinite; the
\* same holds of the vectors the two predict_from_file hand to their models.
C5_NonFiniteBecomeZero ==
    /\ ex.pc = "returned" =>
          \A i \in 1 .. Len(ex.vec) :
              /\ ex.vec[i] \in NonFinite => ex.out[i] = "zero"
              /\ IsFinite(ex.out[i])
    /\ cur.feats # None => cur.feats.classes \subseteq {"fin", "zero"}
    /\ \A i \in 1 .. Len(leg.vec) : leg.vec[i].cls \in {"fin", "zero"}

\* C5 witness: extract_features returned a vector whose first entry was +Inf
\* before the clean-up and is the largest finite float after it.
C5_Witness ==
    /\ ex.pc = "returned" /\ Len(ex.vec) > 0
    /\ ex.vec[1] = "posinf" /\ ex.out[1] = "maxfloat"

\* C6: in one process, every vector extract_features returns has the same
\* length and the same order of features.
C6_StableLayout == Cardinality(seen) <= 1

\* C6 witness: with parselmouth imported, one process has returned vectors of
\* two layouts, one with and one without the voice-quality features.
C6_Witness ==
    /\ HAVE_PRAAT
    /\ \E a \in seen, b \in seen : Len(a) = CoreLen + PraatLen /\ Len(b) = CoreLen

\* C7: at both entry points the label returned is "Parkinson" exactly when the
\* score returned is at least 0.5, and "Healthy" otherwise.
C7_LabelIffAtLeastHalf ==
    /\ cur.ret # None =>
          /\ cur.ret.label \in {"Parkinson", "Healthy"}
          /\ cur.ret.label = "Parkinson" <=> 2 * cur.ret.p_fusion.num >= cur.ret.p_fusion.den
    /\ leg.ret # None =>
          /\ leg.ret.label \in {"Parkinson", "Healthy"}
          /\ leg.ret.label = "Parkinson" <=> 2 * leg.ret.score.num >= leg.ret.score.den

\* C7 witness: with MODEL None a score of exactly 0.5 was returned with the
\* label "Healthy".
C7_Witness ==
    /\ leg.ret # None /\ leg.ret.by = "heuristic"
    /\ 2 * leg.ret.score.num = leg.ret.score.den /\ leg.ret.label = "Healthy"

\* C8: every probability or score an entry point returns lies in [0, 1].
C8_ScoresInUnitInterval ==
    /\ cur.ret # None =>
          /\ InUnitInterval(cur.ret.p_audio)
          /\ InUnitInterval(cur.ret.p_pca22)
          /\ InUnitInterval(cur.ret.p_fusion)
    /\ leg.ret # None => InUnitInterval(leg.ret.score)

\* C8 witness: with MODEL None a score above 1 was returned.
C8_Witness ==
    /\ leg.ret # None /\ leg.ret.by = "heuristic"
    /\ leg.ret.score.num > leg.ret.score.den

\* C9: a request whose feature vector has another length than the one the
\* loaded bundles were fitted on is scored by nothing: it gets no probability,
\* no reduced vector (real or all-zero) and no result, and ends failed; and
\* the array handed to the audio classifier has the length of the vector
\* extracted.
C9_LengthMismatchFails ==
    /\ (cur.feats # None /\ (cur.feats.n # audio_model.nin \/ cur.feats.n # pca_bridge.nin)) =>
          /\ cur.pc \in {"audio", "failed"}
          /\ cur.x_audio = None /\ cur.p_audio = None
          /\ cur.X_pca = None /\ cur.p_pca22 = None /\ cur.p_fusion = None
          /\ cur.ret = None /\ cur.resp \in {None, ErrorResponse(500)}
    /\ cur.x_audio # None => cur.x_audio.n = cur.feats.n
    /\ (leg.ret # None /\ leg.ret.by = "model") => Len(leg.vec) = MODEL.nin

\* C9 witness: a vector of another length than the bundles', failed unscored.
C9_Witness ==
    /\ cur.pc = "failed" /\ cur.feats # None /\ cur.feats.n # audio_model.nin
    /\ cur.steps = <<"check", "extract">>

\* C10: a call of safe_load_joblib that raised left the file of that name
\* under MODEL_DIR as it was.
C10_FailedLoadLeavesCacheUntouched ==
    (lastLoad.kind = "load" /\ lastLoad.raised) => lastLoad.after = lastLoad.before

\* C10 witness: a load that raised UnpicklingError on the bytes it had just
\* downloaded, which are now the file of that name.
C10_Witness ==
    /\ lastLoad.kind = "load" /\ lastLoad.raised /\ lastLoad.err = "UnpicklingError"
    /\ lastLoad.before = "absent" /\ lastLoad.after = "corrupt"
    /\ lastLoad.net = <<"sign", "download">>

\* C11: a call of try_download_model_from_supabase made while SUPABASE_URL or
\* SUPABASE_KEY is unset issued no network request, wrote no file under
\* MODEL_DIR and returned None, so that the load around it raised for absence.
C11_NoCredentialsNoNetwork ==
    (lastLoad.kind = "load" /\ lastLoad.tried /\ ~(creds.url /\ creds.key)) =>
        /\ lastLoad.net = << >>
        /\ ~lastLoad.wrote /\ lastLoad.changed = {} /\ lastLoad.after = "absent"
        /\ lastLoad.raised /\ lastLoad.err = "FileNotFoundError"

\* C11 witness: the download was tried for the bridge with the URL set and
\* the key unset.
C11_Witness ==
    /\ lastLoad.kind = "load" /\ lastLoad.name = BRIDGE_PKL /\ lastLoad.tried
    /\ creds.url /\ ~creds.key /\ lastLoad.net = << >>

C13_ResolvedOnce == \A n \in BundleNames : resolved[n] <= 1

\* C13 witness: the startup check resolved the audio bundle a second time,
\* successfully, and audio_model is still None.
C13_Witness ==
    /\ resolved[AUDIO_PKL] = 2 /\ phase = "serving"
    /\ lastLoad.kind = "load" /\ lastLoad.name = AUDIO_PKL /\ ~lastLoad.raised
    /\ audio_model = None

\* C14: a load that raised reports absence (FileNotFoundError) exactly when
\* no file of that name is there after it, and reports another exception
\* exactly when a file was there, or was downloaded, and did not deserialize.
C14_CorruptDistinctFromAbsent ==
    (lastLoad.kind = "load" /\ lastLoad.raised) =>
        /\ lastLoad.err = "FileNotFoundError" <=> lastLoad.after = "absent"
        /\ lastLoad.err # "FileNotFoundError" <=> lastLoad.after = "corrupt"

\* C14 witness: a load of a file that was there and did not deserialize.
C14_Witness ==
    /\ lastLoad.kind = "load" /\ lastLoad.raised
    /\ lastLoad.before = "corrupt" /\ lastLoad.err # "FileNotFoundError"

\* C15: a response body is built only from a result that clean_json has just
\* gone through, and that is the only replacement of NaN/Inf by numbers the
\* request has made.
C15_SanitizedLast ==
    /\ cur.resp.kind = "json" => cur.cleans = <<"upload: clean_json">>
    /\ cur.resp.kind # "json" => cur.cleans = << >>

\* C15 witness: a body answered after the two np.nan_to_num of the extraction
\* and no clean_json.
C15_Witness ==
    /\ cur.pc = "returned" /\ cur.resp.kind = "json"
    /\ cur.cleans = ExtractCleans /\ cur.resp = ResponseBody(cur.ret)

\* C18: every successful upload response has the keys label,
\* audio_full_proba, pca22_proba or bridge_proba, fusion_proba, pca_features
\* and ai_summary, and its pca_features has 22 entries.
C18_StableFieldNames ==
    cur.resp.kind = "json" =>
        /\ {"label", "audio_full_proba", "fusion_proba", "pca_features", "ai_summary"}
               \subseteq DOMAIN cur.resp
        /\ {"pca22_proba", "bridge_proba"} \cap DOMAIN cur.resp # {}
        /\ cur.resp.pca_features.n = 22

\* C18 witness: a successful response whose label is under final_label, with
\* the other keys and the 22 entries in place.
C18_Witness ==
    /\ cur.resp.kind = "json"
    /\ "final_label" \in DOMAIN cur.resp /\ "label" \notin DOMAIN cur.resp
    /\ {"audio_full_proba", "pca22_proba", "fusion_proba", "pca_features", "ai_summary"}
           \subseteq DOMAIN cur.resp
    /\ cur.resp.pca_features.n = 22

\* C20: the summary predict_from_file returns is the "stable" text exactly
\* when p_fusion < 0.40, the "mild irregularities" text exactly when
\* 0.40 <= p_fusion < 0.65 and the "significant variation" text exactly when
\* p_fusion >= 0.65.
C20_SummaryBands ==
    cur.ret # None =>
        LET p == cur.ret.p_fusion
            t == cur.ret.ai_summary
        IN  /\ t = "stable" <=> 100 * p.num < 40 * p.den
            /\ t = "mild irregularities" <=>
                  (40 * p.den <= 100 * p.num /\ 100 * p.num < 65 * p.den)
            /\ t = "significant variation" <=> 100 * p.num >= 65 * p.den
            /\ t \in {"stable", "mild irregularities", "significant variation"}

\* C20 witness: p_fusion of exactly 0.40 returned with the middle text.
C20_Witness ==
    /\ cur.ret # None /\ cur.ret.p_fusion = Pct(40)
    /\ cur.ret.ai_summary = "mild irregularities"

\* What C16 asks of clean_json: the same shape, dict keys kept, arrays and
\* tuples as lists, every floating NaN, +Inf and -Inf as 0.0, the rest as is.
RECURSIVE Sanitized(_)
Sanitized(obj) ==
    CASE obj.kind = "ndarray" ->
            PyList([i \in 1 .. Len(obj.items) |->
                      PyFloat(IF obj.items[i] \in NonFinite THEN "zero" ELSE obj.items[i])])
      [] obj.kind \in {"list", "tuple"} ->
            PyList([i \in 1 .. Len(obj.items) |-> Sanitized(obj.items[i])])
      [] obj.kind = "dict" ->
            PyDict(obj.keys, [i \in 1 .. Len(obj.vals) |-> Sanitized(obj.vals[i])])
      [] obj.kind \in {"float", "float32"} ->
            IF obj.cls \in NonFinite THEN PyFloat("zero") ELSE obj
      [] OTHER -> obj

\* C16: what clean_json returns is its argument with the same shape and
\* keys, arrays and tuples as lists, every floating NaN, +Inf and -Inf at any
\* depth as 0.0, and every other value unchanged.
C16_CleanJsonShape == cj.pc # "idle" => cj.out = Sanitized(cj.inp)

\* C16 witness: clean_json returned a numpy.float32 +Inf under a dict key as
\* it was.
C16_Witness ==
    /\ cj.pc = "cleaned" /\ cj.inp.kind = "dict"
    /\ cj.inp.vals[1] = NpFloat32("posinf") /\ cj.out.vals[1] = NpFloat32("posinf")

\* C17: clean_json of what clean_json returned is what it returned.
C17_CleanJsonIdempotent == cj.pc = "recleaned" => cj.again = cj.out

\* C17 witness: the second call on the result of a dict that held a NaN and
\* a list with an infinity.
C17_Witness ==
    /\ cj.pc = "recleaned"
    /\ cj.inp = PyDict(<<"a", "b">>,
                       <<PyFloat("nan"), PyList(<<PyFloat("fin"), PyFloat("posinf")>>)>>)
    /\ cj.out = PyDict(<<"a", "b">>,
                       <<PyFloat("zero"), PyList(<<PyFloat("fin"), PyFloat("zero")>>)>>)
    /\ cj.again = cj.out

\* C19: a call of extract_parselmouth_features on the file of the call
\* before it returns the features that call returned.
C19_ExtractionDeterministic ==
    (leg.features # None /\ leg.prev # None /\ leg.prev.inp = leg.inp) =>
        leg.features = leg.prev.features

\* C19 witness: the loaded model scored one file twice on feature vectors
\* that differ in the drawn entries.
C19_Witness ==
    /\ leg.pc = "returned" /\ leg.ret.by = "model"
    /\ leg.prev # None /\ leg.prev.inp = leg.inp
    /\ leg.prev.features.data[N_FEATURES] # leg.features.data[N_FEATURES]
    /\ \A i \in 1 .. N_MEASURED : leg.prev.features.data[i] = leg.features.data[i]

Busy == cur.pc \in {"extract", "audio", "bridge", "fusion", "finish"}
ImportPhases == {"import_audio", "import_bridge", "import_fusion"}
Count(seq, e) == Cardinality({i \in DOMAIN seq : seq[i] = e})

\* C21: while one upload is extracting or scoring, GET /health can be
\* dispatched, and so can another upload that is waiting.
C21_DispatchNotBlocked ==
    Busy => (ENABLED Health /\ (pending > 0 => ENABLED UploadRead))

\* C21 witness: one upload at its audio scoring, another waiting, and neither
\* the waiting one nor /health can be dispatched.
C21_Witness ==
    /\ cur.pc = "audio" /\ pending > 0
    /\ ~ENABLED UploadRead /\ ~ENABLED Health

\* C22: no step of an upload request, whether it goes on, fails or is
\* dropped, changes a model global or a file under MODEL_DIR.
C22_RequestLeavesGlobals ==
    [][(cur' # cur \/ pending' # pending) => UNCHANGED <<globalVars, files>>]_vars

\* C22 witness: a request that failed at the bridge, with the three models
\* still loaded.
C22_Witness ==
    /\ cur.pc = "failed" /\ cur.steps = <<"check", "extract", "audio">>
    /\ ~SomeModelNone /\ audio_scaler # None /\ pending > 0

\* C23: the reduced vector handed back as pca_features has 22 entries and has
\* gone through the transforms of the vector the bridge classifier scored:
\* the pipeline's scaler, then its PCA.
C23_PcaFeaturesAreScored ==
    cur.X_pca # None =>
        (cur.X_pca.n = N_COMPONENTS /\ cur.X_pca.ops = cur.clf_bridge
         /\ cur.X_pca.ops = <<"scaler", "pca">>)

\* C23 witness: a response whose pca_features is the projection of the
\* unscaled vector, while the classifier scored the scaled one.
C23_Witness ==
    /\ cur.pc = "returned" /\ cur.resp.kind = "json"
    /\ cur.resp.pca_features.ops = <<"pca">> /\ cur.clf_bridge = <<"scaler", "pca">>

\* C24: the vector the audio classifier scores has gone through the scaler at
\* most once, and exactly once when the bundle has a scaler.
C24_ScaledOnce ==
    cur.p_audio # None =>
        /\ Count(cur.clf_audio, "scaler") <= 1
        /\ audio_scaler # None => Count(cur.clf_audio, "scaler") = 1

\* C24 witness: p_audio computed on a vector scaled by audio_scaler and again
\* by the first step of the pipeline.
C24_Witness ==
    /\ cur.p_audio # None /\ audio_scaler # None
    /\ cur.x_audio.ops = <<"scaler">> /\ cur.clf_audio = <<"scaler", "scaler", "select">>

\* C25: in the row given to the meta-model, the column that feature_names of
\* the loaded fusion bundle calls p_audio_full holds p_audio and the column it
\* calls p_tab_like_from_pca22 holds p_pca22.
C25_FusionRowByName ==
    cur.p_fusion # None =>
        \A i \in 1 .. Len(fusion_bundle.feature_names) :
            /\ fusion_bundle.feature_names[i] = "p_audio_full" => cur.f_input[i] = cur.p_audio
            /\ fusion_bundle.feature_names[i] = "p_tab_like_from_pca22" =>
                   cur.f_input[i] = cur.p_pca22

\* C25 witness: a bundle that names p_audio_full first, and a row with
\* p_pca22 first.
C25_Witness ==
    /\ cur.p_fusion # None /\ fusion_bundle.feature_names[1] = "p_audio_full"
    /\ cur.p_audio = Pct(100) /\ cur.p_pca22 = Pct(0)
    /\ cur.f_input = <<Pct(0), Pct(100)>>

\* C26: a load that wrote a file under MODEL_DIR had asked for a signed URL
\* and downloaded over it, and a downloaded artifact is deserialized only
\* after it was written.
C26_SignedUrlThenPersist ==
    lastLoad.kind = "load" =>
        /\ lastLoad.wrote => lastLoad.net = <<"sign", "download">>
        /\ (lastLoad.tried /\ (~lastLoad.raised \/ lastLoad.err # "FileNotFoundError")) =>
               lastLoad.wrote

\* C26 witness: a load that wrote and deserialized the body of the answer to
\* the signing request, with no download over a signed URL.
C26_Witness ==
    /\ lastLoad.kind = "load" /\ lastLoad.wrote /\ ~lastLoad.raised
    /\ lastLoad.net = <<"sign">> /\ lastLoad.after = "good"

\* C27: p_audio exists only after the extraction and is computed from the
\* extracted vector, p_pca22 is computed from that same vector and not from
\* anything the audio stage made, and the fusion row exists only once both
\* probabilities do and is made of them.
C27_StepOrder ==
    /\ cur.p_audio # None =>
          /\ cur.feats # None /\ IsPrefix(<<"check", "extract", "audio">>, cur.steps)
          /\ cur.x_audio = ScaleAudio(audio_scaler, cur.feats).x
    /\ cur.p_pca22 # None =>
          /\ cur.feats # None /\ cur.x_bridge = cur.feats
          /\ cur.clf_bridge = cur.feats.ops \o pca_bridge.steps
    /\ cur.p_fusion # None =>
          /\ cur.p_audio # None /\ cur.p_pca22 # None
          /\ cur.f_input = <<cur.p_pca22, cur.p_audio>>
    /\ cur.p_fusion = None => cur.f_input = << >>

\* C27 witness: both probabilities computed from one vector that the audio
\* stage had scaled for itself, and the fusion not yet done.
C27_Witness ==
    /\ cur.pc = "fusion" /\ cur.p_audio = Pct(0) /\ cur.p_pca22 = Pct(100)
    /\ cur.x_audio # cur.feats /\ cur.x_bridge = cur.feats /\ cur.f_input = << >>

\* C28: once the import is over, a model global that is None stays None;
\* while one is None every answered upload got the model-missing error and
\* /health reports that model as false.
C28_NoneStaysNone ==
    /\ [](phase = "serving" =>
            /\ SomeModelNone => cur.resp \in {None, ErrorResponse(500)}
            /\ health # None =>
                  health.models = [audio_model |-> audio_model # None,
                                   pca_bridge |-> pca_bridge # None,
                                   fusion_model |-> fusion_model # None])
    /\ [][phase \notin ImportPhases =>
            /\ audio_model = None => audio_model' = None
            /\ pca_bridge = None => pca_bridge' = None
            /\ fusion_model = None => fusion_model' = None]_vars

\* C28 witness: the startup check loaded the bridge bundle, pca_bridge is
\* None all the same, an upload failed and /health says false.
C28_Witness ==
    /\ phase = "serving" /\ resolved[BRIDGE_PKL] = 2 /\ files[BRIDGE_PKL] = "good"
    /\ pca_bridge = None /\ audio_model # None /\ fusion_model # None
    /\ cur.pc = "failed" /\ cur.resp = ErrorResponse(500)
    /\ health # None /\ ~health.models.pca_bridge

\* C29: once the import is over, audio_model is None exactly when
\* audio_bundle is, and then audio_scaler is None; fusion_model is None
\* exactly when fusion_bundle is; and each of the three loads was attempted.
C29_AllOrNothing ==
    phase \notin ImportPhases =>
        /\ audio_model = None <=> audio_bundle = None
        /\ audio_model = None => audio_scaler = None
        /\ fusion_model = None <=> fusion_bundle = None
        /\ \A n \in BundleNames : resolved[n] >= 1

\* C29 witness: the audio file unpickled to a bundle without "model"; the
\* audio globals are all None and the other two bundles are loaded.
C29_Witness ==
    /\ phase = "startup" /\ files[AUDIO_PKL] = "nokey"
    /\ audio_bundle = None /\ audio_model = None /\ audio_scaler = None
    /\ pca_bridge # None /\ fusion_model # None

\* C30: a result labelled "Parkinson" never has the stable summary, a result
\* with the significant-variation summary is labelled "Parkinson", and a
\* result labelled "Healthy" has the stable or the mild summary.
C30_LabelMatchesSummary ==
    cur.ret # None =>
        /\ cur.ret.label = "Parkinson" => cur.ret.ai_summary # "stable"
        /\ cur.ret.ai_summary = "significant variation" => cur.ret.label = "Parkinson"
        /\ cur.ret.label = "Healthy" =>
              cur.ret.ai_summary \in {"stable", "mild irregularities"}

\* C30 witness: the mild summary on a result labelled "Healthy".
C30_Witness ==
    /\ cur.ret # None /\ cur.ret.label = "Healthy"
    /\ cur.ret.ai_summary = "mild irregularities" /\ cur.ret.p_fusion = Pct(49)

====
